---- MODULE Spec2Model ----
(***************************************************************************)
(* Model of the Mini-RAG service (src/api): chunk identity (getDocID),     *)
(* index writing (vectorUpsert, POST /ingest), the startup readiness gate  *)
(* and POST /query, and the answer composition helpers (citeDocs,          *)
(* sourceMetadata).                                                        *)
(*                                                                         *)
(* Python strings are modelled as sequences of string tokens ("texts");    *)
(* f-strings and str() are modelled by concatenation of their pieces, so   *)
(* that the rendered form of a value is computed and not assumed.  A       *)
(* metadata dict is an insertion-ordered sequence of <<key, value>> pairs  *)
(* with distinct keys; the value under "page" is an integer, every other   *)
(* value is a text.  A Document is [page_content, metadata].               *)
(***************************************************************************)
EXTENDS Integers, Sequences, FiniteSets, TLC

(***************************************************************************)
(* Bounds of the model.                                                    *)
(***************************************************************************)
MaxPage == 1          \* page numbers 0..MaxPage (PyPDFLoader pages are 0-based)
MaxDocs == 3          \* longest chunk sequence given to the composer
MaxPdfPages == 2      \* longest uploaded PDF, in pages
MaxTmp == 1           \* temporary files created over a run
MaxStore == 2         \* entries in the vector store

None == <<"None">>

(***************************************************************************)
(* Python dict operations on the ordered-pairs representation.             *)
(***************************************************************************)
HasKey(md, k) == \E i \in 1..Len(md) : md[i][1] = k

GetItem(md, k) == md[CHOOSE i \in 1..Len(md) : md[i][1] = k][2]

\* d[k] = v : an existing key keeps its position, a new key goes last
SetItem(md, k, v) ==
    IF HasKey(md, k)
    THEN [i \in 1..Len(md) |-> IF md[i][1] = k THEN <<k, v>> ELSE md[i]]
    ELSE Append(md, <<k, v>>)

\* the mapping a dict denotes, regardless of insertion order
MappingOf(md) == {md[i] : i \in 1..Len(md)}

(***************************************************************************)
(* Rendering of values: format(int) and repr() as used by str(dict).       *)
(***************************************************************************)
Digit(n) ==
    CASE n = 0 -> "0" [] n = 1 -> "1" [] n = 2 -> "2" [] n = 3 -> "3"
      [] n = 4 -> "4" [] n = 5 -> "5" [] n = 6 -> "6" [] n = 7 -> "7"
      [] n = 8 -> "8" [] n = 9 -> "9"

RECURSIVE IntStr(_)
IntStr(n) == IF n < 10 THEN <<Digit(n)>> ELSE IntStr(n \div 10) \o <<Digit(n % 10)>>

ReprValue(k, v) == IF k = "page" THEN IntStr(v) ELSE <<"'">> \o v \o <<"'">>

RECURSIVE ReprItems(_)
ReprItems(md) ==
    IF md = <<>> THEN <<>>
    ELSE LET item == <<"'", md[1][1], "'", ": ">> \o ReprValue(md[1][1], md[1][2])
         IN  IF Len(md) = 1 THEN item ELSE item \o <<", ">> \o ReprItems(Tail(md))

\* str(doc.metadata): the items in insertion order between braces
DictStr(md) == <<"{">> \o ReprItems(md) \o <<"}">>

(***************************************************************************)
(* utilities.getDocID.  hashlib.sha256(...).hexdigest() is modelled as an  *)
(* injective function of its argument: the digest of a text is that text   *)
(* between two delimiters.                                                 *)
(***************************************************************************)
sha256(text) == <<"sha256(">> \o text \o <<")">>

getDocID(doc) ==
    LET content_hash == sha256(doc.page_content)
        metadata_string == DictStr(doc.metadata)
        metadata_hash == sha256(metadata_string)
    IN  content_hash \o <<"-">> \o metadata_hash

(***************************************************************************)
(* "\n\n".join(blocks)                                                     *)
(***************************************************************************)
RECURSIVE JoinBlocks(_)
JoinBlocks(blocks) ==
    IF blocks = <<>> THEN <<>>
    ELSE IF Len(blocks) = 1 THEN blocks[1]
    ELSE blocks[1] \o <<"\n\n">> \o JoinBlocks(Tail(blocks))

(***************************************************************************)
(* rag.citeDocs: one block per chunk, numbered from 1; source_info is the  *)
(* empty string unless the chunk has a page.                               *)
(***************************************************************************)
citeBlock(i, doc) ==
    LET source_info == IF HasKey(doc.metadata, "page")
                       THEN <<"Source: Page ">> \o IntStr(GetItem(doc.metadata, "page") + 1)
                       ELSE <<>>
    IN  <<"Source ID: ">> \o IntStr(i) \o <<" | ">> \o source_info
            \o <<"\nContent: ">> \o doc.page_content

\* a citeDocs that leaves the Source ID prefix off a chunk without a page
citeDocsNoIdWithoutPage(docs) ==
    JoinBlocks([i \in 1..Len(docs) |->
        IF HasKey(docs[i].metadata, "page")
        THEN citeBlock(i, docs[i])
        ELSE <<"Content: ">> \o docs[i].page_content])

citeDocs(docs) == JoinBlocks([i \in 1..Len(docs) |-> citeBlock(i, docs[i])])

(***************************************************************************)
(* utilities.formatDocsWithIDs (not called by the chain): the page is      *)
(* printed as stored, and a chunk without a page gets no source line.      *)
(***************************************************************************)
formatDocsWithIDs(docs) ==
    JoinBlocks([i \in 1..Len(docs) |->
        IF HasKey(docs[i].metadata, "page")
        THEN <<"Source: Page ">> \o IntStr(GetItem(docs[i].metadata, "page"))
                 \o <<"\nContent: ">> \o docs[i].page_content
        ELSE <<"Content: ">> \o docs[i].page_content])

(***************************************************************************)
(* rag.ragChain.sourceMetadata: the page labels of the chunks that have a  *)
(* page, then list(dict.fromkeys(sources)), which keeps the first          *)
(* occurrence of every label.                                              *)
(***************************************************************************)
RECURSIVE PageLabels(_)
PageLabels(docs) ==
    IF docs = <<>> THEN <<>>
    ELSE (IF HasKey(docs[1].metadata, "page")
          THEN << <<"Page ">> \o IntStr(GetItem(docs[1].metadata, "page") + 1) >>
          ELSE <<>>) \o PageLabels(Tail(docs))

RECURSIVE FromKeys(_)
FromKeys(seq) ==
    IF seq = <<>> THEN <<>>
    ELSE LET front == FromKeys(SubSeq(seq, 1, Len(seq) - 1))
             last == seq[Len(seq)]
         IN  IF \E i \in 1..Len(front) : front[i] = last THEN front ELSE Append(front, last)

\* a sourceMetadata that returns the labels without removing repetitions
sourceMetadataNoDedup(docs) == PageLabels(docs)

sourceMetadata(docs) == FromKeys(PageLabels(docs))

(***************************************************************************)
(* Input domains.                                                          *)
(***************************************************************************)
Contents == {<<"a">>, <<"b">>}
Origins == {<<"user_input">>, <<"f.pdf">>}
Pages == 0..MaxPage

\* metadata dicts over the keys source and page, in either insertion order
Metadatas ==
    {<<>>}
    \cup {<< <<"source", s>> >> : s \in Origins}
    \cup {<< <<"page", p>> >> : p \in Pages}
    \cup {<< <<"source", s>>, <<"page", p>> >> : s \in Origins, p \in Pages}
    \cup {<< <<"page", p>>, <<"source", s>> >> : s \in Origins, p \in Pages}

Documents == [page_content : Contents \cup {<<>>}, metadata : Metadatas]

\* Python truthiness of an Optional[str] or of an optional object
Truthy(x) == x # None /\ x # <<>>

(***************************************************************************)
(* RecursiveCharacterTextSplitter.split_documents for documents within the *)
(* chunk budget: a non-empty text is one chunk carrying a copy of the      *)
(* document's metadata, an empty text gives no chunk.                      *)
(***************************************************************************)
RECURSIVE split_documents(_)
split_documents(documents) ==
    IF documents = <<>> THEN <<>>
    ELSE (IF documents[1].page_content = <<>> THEN <<>> ELSE <<documents[1]>>)
             \o split_documents(Tail(documents))

\* the loop "doc.metadata['document_id'] = getDocID(doc)" over a chunk list
AssignIDs(chunkList) ==
    [i \in 1..Len(chunkList) |->
        [chunkList[i] EXCEPT !.metadata = SetItem(@, "document_id", getDocID(chunkList[i]))]]

IdsOf(chunkList) == [i \in 1..Len(chunkList) |-> GetItem(chunkList[i].metadata, "document_id")]

(***************************************************************************)
(* The vector store (external): add_documents(documents, ids) writes each  *)
(* document under its id, a later write to an id replacing an earlier one. *)
(***************************************************************************)
add_documents(st, documents, ids) ==
    LET written == {ids[i] : i \in 1..Len(ids)}
        lastAt(k) == CHOOSE i \in 1..Len(ids) :
                        ids[i] = k /\ \A j \in 1..Len(ids) : ids[j] = k => j <= i
    IN  [k \in DOMAIN st \cup written |->
            IF k \in written THEN documents[lastAt(k)] ELSE st[k]]

\* ids the store assigns when the caller passes none (uuid4)
StoreIds(first, n) == [i \in 1..n |-> <<"uuid4-">> \o IntStr(first + i - 1)]

\* tempfile.NamedTemporaryFile(suffix=".pdf").name
TmpName(n) == <<"/tmp/tmp", Digit(n), ".pdf">>

DOC_PATH == <<"docs/sampletext.txt">>

\* the text_content form field: absent, empty, or a text
TextContents == {None, <<>>, <<"a">>}

\* uploads: none, a PDF of one or more pages, a plain-text file
NoFile == [present |-> FALSE, content_type |-> "", pages |-> <<>>]

\* the pages of an uploaded PDF
PageTexts == UNION {[1..n -> {<<"a">>}] : n \in 1..MaxPdfPages}

Files ==
    {NoFile}
    \cup [present : {TRUE}, content_type : {"application/pdf"}, pages : PageTexts]
    \cup [present : {TRUE}, content_type : {"text/plain"}, pages : {<< <<"a">> >>}]

NoRequest ==
    [op |-> "none", text_content |-> None, file |-> NoFile, index_existed |-> FALSE,
     remote_ok |-> TRUE, chunks |-> <<>>, written |-> 0, invoked |-> FALSE,
     startup |-> "start", answer |-> <<>>]

NoResponse == [endpoint |-> "none", status |-> 0, body |-> [detail |-> <<>>]]

VARIABLES
    startup_pc,     \* position of startup_event
    retriever,      \* app.retriever (global)
    rag_chain,      \* app.rag_chain (global)
    index_exists,   \* whether PINECONE_INDEX_NAME is among pc.list_indexes()
    store,          \* the index: id -> document
    uuid_next,      \* next store-assigned id
    chunks,         \* the chunk list held by the caller of vectorUpsert
    tmp_files,      \* temporary files present on disk
    tmp_next,       \* next temporary file name
    req,            \* the last request handled and the handler's locals
    resp,           \* the response to it
    docA, docB, idA, idB,           \* getDocID exercised on two documents
    docs, context, formatted, sources   \* the composer exercised on a chunk sequence

svcVars == <<startup_pc, retriever, rag_chain, index_exists, store, uuid_next,
             chunks, tmp_files, tmp_next, req, resp>>

idVars == <<docA, docB, idA, idB>>

compVars == <<docs, context, formatted, sources>>

vars == <<svcVars, idVars, compVars>>

SvcIdle ==
    /\ startup_pc = "start"
    /\ retriever = None
    /\ rag_chain = None
    /\ index_exists = TRUE
    /\ store = [k \in {} |-> <<>>]
    /\ uuid_next = 0
    /\ chunks = <<>>
    /\ tmp_files = {}
    /\ tmp_next = 0
    /\ req = NoRequest
    /\ resp = NoResponse

IdIdle ==
    /\ docA = [page_content |-> <<>>, metadata |-> <<>>]
    /\ docB = [page_content |-> <<>>, metadata |-> <<>>]
    /\ idA = None
    /\ idB = None

CompIdle ==
    /\ docs = <<>>
    /\ context = None
    /\ formatted = None
    /\ sources = None

(***************************************************************************)
(* app.startup_event, in its two steps.  Either constructor may raise; the *)
(* except clause leaves the globals as they are at that point.             *)
(***************************************************************************)
StartupGetRetriever(ok) ==
    /\ startup_pc = "start"
    /\ IF ok
       THEN retriever' = <<"finalRetriever">> /\ startup_pc' = "have_retriever"
       ELSE retriever' = retriever /\ startup_pc' = "failed"
    /\ UNCHANGED <<rag_chain, index_exists, store, uuid_next, chunks, tmp_files, tmp_next, req, resp, idVars, compVars>>

\* a second step that publishes the chain before the constructor can fail
StartupRagChainPublishesEarly(ok) ==
    /\ startup_pc = "have_retriever"
    /\ rag_chain' = <<"rag">>
    /\ startup_pc' = IF ok THEN "complete" ELSE "failed"
    /\ UNCHANGED <<retriever, index_exists, store, uuid_next, chunks, tmp_files, tmp_next, req, resp, idVars, compVars>>

StartupRagChain(ok) ==
    /\ startup_pc = "have_retriever"
    /\ IF ok
       THEN rag_chain' = <<"rag">> /\ startup_pc' = "complete"
       ELSE rag_chain' = rag_chain /\ startup_pc' = "failed"
    /\ UNCHANGED <<retriever, index_exists, store, uuid_next, chunks, tmp_files, tmp_next, req, resp, idVars, compVars>>

\* the elif branch of ingest_document: no text, and an uploaded PDF
IsPdfRequest(text_content, file) ==
    ~Truthy(text_content) /\ file.present /\ file.content_type = "application/pdf"

\* the outcomes of the calls an /ingest request gets to make: the loader is
\* called for a PDF only, the store only when chunks were produced
LoaderOutcomes(text_content, file) ==
    IF IsPdfRequest(text_content, file) THEN BOOLEAN ELSE {TRUE}

RemoteOutcomes(text_content, file, loader_ok) ==
    IF (Truthy(text_content) \/ IsPdfRequest(text_content, file)) /\ loader_ok
    THEN BOOLEAN ELSE {TRUE}

(***************************************************************************)
(* app.ingest_document (POST /ingest).  Everything runs inside one try     *)
(* whose "except Exception" turns whatever was raised, the HTTPException   *)
(* of the else branch included, into a 500 response.                       *)
(***************************************************************************)
ingest_document(text_content, file, loader_ok, remote_ok) ==
    LET is_text == Truthy(text_content)
        is_pdf == IsPdfRequest(text_content, file)
        tmp_path == TmpName(tmp_next)
        documents ==
            IF is_text
            THEN << [page_content |-> text_content,
                     metadata |-> << <<"source", <<"user_input">>>> >>] >>
            ELSE [i \in 1..Len(file.pages) |->
                     [page_content |-> file.pages[i],
                      metadata |-> << <<"source", tmp_path>>, <<"page", i - 1>> >>]]
        split == AssignIDs(split_documents(documents))
        raised ==
            IF ~is_text /\ ~is_pdf THEN "HTTPException(400)"
            ELSE IF is_pdf /\ ~loader_ok THEN "loader.load"
            ELSE IF ~index_exists \/ ~remote_ok THEN "vector store"
            ELSE "nothing"
        newStore == IF raised = "nothing" THEN add_documents(store, split, IdsOf(split))
                    ELSE store
    IN  /\ is_pdf => tmp_next < MaxTmp
        /\ Cardinality(DOMAIN newStore) <= MaxStore
        /\ store' = newStore
        /\ tmp_next' = IF is_pdf THEN tmp_next + 1 ELSE tmp_next
        \* the file is created before loader.load() and removed only after it
        /\ tmp_files' = IF is_pdf /\ ~loader_ok THEN tmp_files \cup {tmp_path} ELSE tmp_files
        /\ req' = [NoRequest EXCEPT !.op = "ingest", !.text_content = text_content,
                                    !.file = [file EXCEPT !.pages = <<>>], !.index_existed = index_exists,
                                    !.remote_ok = remote_ok /\ (is_pdf => loader_ok),
                                    !.chunks = IF raised \in {"nothing", "vector store"}
                                               THEN split ELSE <<>>,
                                    !.written = IF raised = "nothing" THEN Len(split) ELSE 0]
        /\ resp' = IF raised = "nothing"
                   THEN [endpoint |-> "ingest", status |-> 200,
                         body |-> [message |-> <<"Successfully ingested ">>
                                       \o IntStr(Len(split)) \o <<" chunks.">>]]
                   ELSE [endpoint |-> "ingest", status |-> 500,
                         body |-> [detail |-> <<"Failed to ingest document: ", raised>>]]
        /\ UNCHANGED <<startup_pc, retriever, rag_chain, index_exists, uuid_next,
                       chunks, idVars, compVars>>

(***************************************************************************)
(* indexing.loadAndChunk on the configured text file, whose content is the *)
(* parameter: TextLoader gives one document with the path as its source.   *)
(***************************************************************************)
loadAndChunk(text) ==
    /\ chunks' = split_documents(<< [page_content |-> text,
                                     metadata |-> << <<"source", DOC_PATH>> >>] >>)
    /\ UNCHANGED <<startup_pc, retriever, rag_chain, index_exists, store, uuid_next,
                   tmp_files, tmp_next, req, resp, idVars, compVars>>

(***************************************************************************)
(* indexing.vectorUpsert(chunks).  The ids are written into the metadata   *)
(* of the caller's chunk objects before the store is contacted.  With the  *)
(* index present the chunks are added under their ids; with the index      *)
(* absent from_documents is called without ids, so the created index holds *)
(* the batch under ids of the store's choosing.  A failure of a remote     *)
(* call propagates out of the function and ends the indexing script, so    *)
(* only completed calls are steps here.                                    *)
(***************************************************************************)
vectorUpsert ==
    LET docsWithIDs == AssignIDs(chunks)
        n == Len(docsWithIDs)
        newStore ==
            IF index_exists
            THEN add_documents(store, docsWithIDs, IdsOf(docsWithIDs))
            ELSE add_documents(store, docsWithIDs, StoreIds(uuid_next, n))
    IN  /\ Cardinality(DOMAIN newStore) <= MaxStore
        /\ chunks' = docsWithIDs
        /\ store' = newStore
        /\ index_exists' = TRUE
        /\ uuid_next' = IF index_exists THEN uuid_next ELSE uuid_next + n
        /\ req' = [NoRequest EXCEPT !.op = "vectorUpsert", !.index_existed = index_exists,
                                    !.chunks = docsWithIDs, !.written = n]
        /\ resp' = NoResponse
        /\ UNCHANGED <<startup_pc, retriever, rag_chain, tmp_files, tmp_next,
                       idVars, compVars>>

(***************************************************************************)
(* app.run_query (POST /query).  The chain retrieves at most top_n chunks  *)
(* of the index, renders the context with citeDocs, asks the model once    *)
(* and computes the sources with sourceMetadata; the handler wraps what    *)
(* the chain returns under the key "answer".                               *)
(***************************************************************************)
top_n == 3

Retrievable ==
    {ks \in UNION {[1..n -> DOMAIN store] : n \in 0..top_n} :
        \A i, j \in 1..Len(ks) : i # j => ks[i] # ks[j]}

\* the model's reply, a text determined by the prompt it was given
llm(ctx, question) == <<"llm(">> \o ctx \o <<" | ">> \o question \o <<")">>

run_query(question, ks, remote_ok) ==
    LET retrieved == [i \in 1..Len(ks) |-> store[ks[i]]]
        response == [answer |-> llm(citeDocs(retrieved), question),
                     sources |-> sourceMetadata(retrieved)]
        ready == Truthy(rag_chain)
        succeeded == ready /\ remote_ok /\ index_exists
    IN  /\ (~succeeded) => ks = <<>>
        /\ req' = [NoRequest EXCEPT !.op = "query", !.text_content = question,
                                    !.index_existed = index_exists, !.remote_ok = remote_ok,
                                    !.chunks = retrieved, !.invoked = ready,
                                    !.startup = startup_pc,
                                    !.answer = IF succeeded THEN response.answer ELSE <<>>]
        /\ resp' = IF ~ready
                   THEN [endpoint |-> "query", status |-> 503,
                         body |-> [detail |-> <<"RAG service is not ready.">>]]
                   ELSE IF ~succeeded
                   THEN [endpoint |-> "query", status |-> 500,
                         body |-> [detail |-> <<"An error occurred during query processing">>]]
                   ELSE [endpoint |-> "query", status |-> 200,
                         body |-> [answer |-> response]]
        /\ UNCHANGED <<startup_pc, retriever, rag_chain, index_exists, store, uuid_next,
                       chunks, tmp_files, tmp_next, idVars, compVars>>

Questions == {<<"q">>}

\* the index may or may not have been created before the service starts
Init ==
    /\ startup_pc = "start"
    /\ retriever = None
    /\ rag_chain = None
    /\ index_exists \in BOOLEAN
    /\ store = [k \in {} |-> <<>>]
    /\ uuid_next = 0
    /\ chunks = <<>>
    /\ tmp_files = {}
    /\ tmp_next = 0
    /\ req = NoRequest
    /\ resp = NoResponse
    /\ IdIdle
    /\ CompIdle

Next ==
    \/ \E ok \in BOOLEAN : StartupGetRetriever(ok)
    \/ \E ok \in BOOLEAN : StartupRagChain(ok)
    \/ \E text_content \in TextContents, file \in Files :
          \E loader_ok \in LoaderOutcomes(text_content, file) :
             \E remote_ok \in RemoteOutcomes(text_content, file, loader_ok) :
                ingest_document(text_content, file, loader_ok, remote_ok)
    \/ \E text \in {<<>>, <<"a">>} : loadAndChunk(text)
    \/ vectorUpsert
    \/ \E question \in Questions, ks \in Retrievable, remote_ok \in BOOLEAN :
           run_query(question, ks, remote_ok)

Spec == Init /\ [][Next]_vars

\* metadata as the caller gave it, before the pipeline added document_id
BaseMetadata(md) == {md[i] : i \in {j \in 1..Len(md) : md[j][1] # "document_id"}}

SameChunk(d1, d2) ==
    /\ d1.page_content = d2.page_content
    /\ BaseMetadata(d1.metadata) = BaseMetadata(d2.metadata)

\* C1: whatever sequence of upserts ran (vectorUpsert, also a second time on
\* the same chunk list, or /ingest), the store holds at most one entry for a
\* given chunk (content, metadata): two entries for the same chunk are the
\* same entry under one ID.
ReingestionIdempotence ==
    \A k1, k2 \in DOMAIN store : SameChunk(store[k1], store[k2]) => k1 = k2

\* C3: a query is handed to the chain only when startup_event had completed
\* (getRetriever and ragChain both returned), and a query handled before
\* that, or after either step failed, gets the 503 response.
ReadinessGate ==
    req.op = "query" =>
        /\ req.invoked => req.startup = "complete"
        /\ req.startup # "complete" =>
               /\ resp.status = 503
               /\ resp.body = [detail |-> <<"RAG service is not ready.">>]
               /\ ~req.invoked

\* a query handled between the two steps of startup_event and rejected
ReadinessGateWitness ==
    /\ req.op = "query"
    /\ req.startup = "have_retriever"
    /\ retriever # None
    /\ resp.status = 503

SupportedInput(r) ==
    \/ Truthy(r.text_content)
    \/ r.file.present /\ r.file.content_type = "application/pdf"

\* C4: an /ingest request with neither non-empty text_content nor a file of
\* a supported type is answered with status 400 and writes nothing.
MalformedIngestIsClientError ==
    (req.op = "ingest" /\ ~SupportedInput(req)) =>
        /\ resp.status = 400
        /\ req.written = 0

\* C5: a successful /query response has the generated answer string as its
\* top-level answer field and the sources computed from the retrieved chunks
\* as its top-level sources field.
QueryResponseShape ==
    (resp.endpoint = "query" /\ resp.status = 200) =>
        /\ DOMAIN resp.body = {"answer", "sources"}
        /\ resp.body.answer = req.answer
        /\ resp.body.sources = sourceMetadata(req.chunks)

Stored(chunk) == \E k \in DOMAIN store : store[k] = chunk

\* C7: an ingestion (vectorUpsert or /ingest) of acceptable input, with the
\* remote services answering, writes every chunk of the batch: under its
\* ChunkID if the index existed, and into the newly created index if it did
\* not.
IndexExistsBranching ==
    (/\ req.op \in {"ingest", "vectorUpsert"}
     /\ req.op = "ingest" => SupportedInput(req)
     /\ req.remote_ok) =>
        /\ index_exists
        /\ \A i \in 1..Len(req.chunks) : Stored(req.chunks[i])
        /\ req.index_existed =>
               \A i \in 1..Len(req.chunks) :
                   /\ IdsOf(req.chunks)[i] \in DOMAIN store
                   /\ store[IdsOf(req.chunks)[i]] = req.chunks[i]

\* C9: /ingest with text_content = "" and no file answers 200 and reports
\* zero chunks written.
EmptyDocumentIsNotAnError ==
    (req.op = "ingest" /\ req.text_content = <<>> /\ ~req.file.present) =>
        /\ resp.status = 200
        /\ resp.body = [message |-> <<"Successfully ingested ", "0", " chunks.">>]

\* C10: once a request has returned, no temporary file of an upload is left.
TemporaryFileCleanup == tmp_files = {}

(***************************************************************************)
(* Specification of getDocID as a pure function: two documents are drawn   *)
(* and each is given its ID.                                               *)
(***************************************************************************)
IdInit ==
    /\ docA \in Documents
    /\ docB \in Documents
    /\ idA = None
    /\ idB = None
    /\ SvcIdle
    /\ CompIdle

ComputeIdA ==
    /\ idA = None
    /\ idA' = getDocID(docA)
    /\ UNCHANGED <<docA, docB, idB, svcVars, compVars>>

ComputeIdB ==
    /\ idB = None
    /\ idB' = getDocID(docB)
    /\ UNCHANGED <<docA, docB, idA, svcVars, compVars>>

IdNext == ComputeIdA \/ ComputeIdB

SpecId == IdInit /\ [][IdNext]_vars

\* C2: getDocID gives two documents with the same content and the same
\* metadata mapping (same key/value pairs, in whatever insertion order) the
\* same ID, and gives documents that differ in content or in any metadata
\* key or value different IDs.
IdempotentID ==
    (idA # None /\ idB # None) =>
        (idA = idB <=> (/\ docA.page_content = docB.page_content
                        /\ MappingOf(docA.metadata) = MappingOf(docB.metadata)))

(***************************************************************************)
(* Specification of the composer's pure functions: a chunk sequence is     *)
(* drawn and citeDocs, formatDocsWithIDs and sourceMetadata are applied.   *)
(***************************************************************************)
ChunkMetadatas ==
    {<< <<"source", <<"user_input">>>> >>}
    \cup {<< <<"source", <<"f.pdf">>>>, <<"page", p>> >> : p \in Pages}

ComposerChunks == [page_content : Contents, metadata : ChunkMetadatas]

ChunkSeqs == UNION {[1..n -> ComposerChunks] : n \in 0..MaxDocs}

CompInit ==
    /\ docs \in ChunkSeqs
    /\ context = None
    /\ formatted = None
    /\ sources = None
    /\ SvcIdle
    /\ IdIdle

CiteDocs ==
    /\ context = None
    /\ context' = citeDocs(docs)
    /\ UNCHANGED <<docs, formatted, sources, svcVars, idVars>>

FormatDocs ==
    /\ formatted = None
    /\ formatted' = formatDocsWithIDs(docs)
    /\ UNCHANGED <<docs, context, sources, svcVars, idVars>>

SourceMetadata ==
    /\ sources = None
    /\ sources' = sourceMetadata(docs)
    /\ UNCHANGED <<docs, context, formatted, svcVars, idVars>>

CompNext == CiteDocs \/ FormatDocs \/ SourceMetadata

SpecComp == CompInit /\ [][CompNext]_vars

\* the page label sourceMetadata gives a chunk that has a page
PageLabelOf(doc) == <<"Page ">> \o IntStr(GetItem(doc.metadata, "page") + 1)

PagedIndexes == {i \in 1..Len(docs) : HasKey(docs[i].metadata, "page")}

FirstIndexOf(label) ==
    CHOOSE i \in PagedIndexes :
        PageLabelOf(docs[i]) = label /\ \A j \in PagedIndexes : PageLabelOf(docs[j]) = label => i <= j

\* C6: the sources list holds each distinct page label of the chunk sequence
\* exactly once, ordered by the first chunk carrying the page; chunks without
\* a page contribute nothing, so no paged chunk means an empty list.
SourceDeduplication ==
    sources # None =>
        /\ {sources[i] : i \in 1..Len(sources)} = {PageLabelOf(docs[i]) : i \in PagedIndexes}
        /\ \A i, j \in 1..Len(sources) : i # j => sources[i] # sources[j]
        /\ \A i, j \in 1..Len(sources) :
               i < j => FirstIndexOf(sources[i]) < FirstIndexOf(sources[j])
        /\ (PagedIndexes = {} => sources = <<>>)

\* three paged chunks, the third repeating the page of the first
SourceDeduplicationWitness ==
    /\ sources # None
    /\ Len(docs) = 3
    /\ Len(sources) = 2
    /\ Cardinality(PagedIndexes) = 3
    /\ PageLabelOf(docs[1]) = PageLabelOf(docs[3])
    /\ PageLabelOf(docs[1]) # PageLabelOf(docs[2])

(***************************************************************************)
(* Reading a rendered context back: the blocks between "\n\n" separators.  *)
(***************************************************************************)
RECURSIVE SplitBlocks(_)
SplitBlocks(text) ==
    IF \A i \in 1..Len(text) : text[i] # "\n\n" THEN <<text>>
    ELSE LET cut == CHOOSE i \in 1..Len(text) :
                        text[i] = "\n\n" /\ \A j \in 1..(i - 1) : text[j] # "\n\n"
         IN  <<SubSeq(text, 1, cut - 1)>> \o SplitBlocks(SubSeq(text, cut + 1, Len(text)))

BlocksOf(text) == IF text = <<>> THEN <<>> ELSE SplitBlocks(text)

HasToken(block, tok) == \E i \in 1..Len(block) : block[i] = tok

IsSuffix(suffix, block) ==
    /\ Len(suffix) <= Len(block)
    /\ SubSeq(block, Len(block) - Len(suffix) + 1, Len(block)) = suffix

\* a block shows a source marker when it has a Source ID or a page marker
HasSourceMarker(block) == HasToken(block, "Source ID: ") \/ HasToken(block, "Source: Page ")

BlocksInInputOrder(text) ==
    /\ Len(BlocksOf(text)) = Len(docs)
    /\ \A i \in 1..Len(docs) :
           IsSuffix(<<"\nContent: ">> \o docs[i].page_content, BlocksOf(text)[i])
    /\ (docs = <<>> => text = <<>>)

\* C8 as stated: a citeDocs block carries a Source ID / page marker exactly
\* when its chunk has a page, a chunk without a page being rendered as its
\* content alone; blocks are joined by a double newline in input order and no
\* chunks give the empty string.
ContextLabelling ==
    context # None =>
        /\ BlocksInInputOrder(context)
        /\ \A i \in 1..Len(docs) :
               HasSourceMarker(BlocksOf(context)[i]) <=> HasKey(docs[i].metadata, "page")

\* C8 amended: every citeDocs block starts with its positional Source ID,
\* also for a chunk without a page; the block carries the page marker, with
\* the page counted from one, exactly when its chunk has a page; blocks are
\* joined by a double newline in input order and no chunks give the empty
\* string.
ContextLabellingAmended ==
    context # None =>
        /\ BlocksInInputOrder(context)
        /\ \A i \in 1..Len(docs) :
               LET block == BlocksOf(context)[i]
                   idPrefix == <<"Source ID: ">> \o IntStr(i) \o <<" | ">>
               IN  /\ SubSeq(block, 1, Len(idPrefix)) = idPrefix
                   /\ HasToken(block, "Source: Page ") <=> HasKey(docs[i].metadata, "page")
                   /\ HasKey(docs[i].metadata, "page") =>
                          block = idPrefix \o <<"Source: Page ">>
                                      \o IntStr(GetItem(docs[i].metadata, "page") + 1)
                                      \o <<"\nContent: ">> \o docs[i].page_content
                   /\ ~HasKey(docs[i].metadata, "page") =>
                          block = idPrefix \o <<"\nContent: ">> \o docs[i].page_content

\* a context rendered from a chunk with a page followed by one without
ContextLabellingWitness ==
    /\ context # None
    /\ Len(docs) >= 2
    /\ HasKey(docs[1].metadata, "page")
    /\ ~HasKey(docs[2].metadata, "page")
    /\ HasToken(BlocksOf(context)[2], "Source ID: ")

====
